---- MODULE Spec2Model ----
(***************************************************************************)
(* FinanceHub dashboard: the filter resolver (filteredData), the derived   *)
(* metrics (calculateMetrics and the metric cards) and the exporter        *)
(* (exportToCSV, exportToJSON), as state machines.                         *)
(*                                                                         *)
(* JavaScript values are modelled as follows.                              *)
(*  - An object is the sequence of its own properties in creation order,   *)
(*    each [key |-> <string>, val |-> <value>], with distinct keys.        *)
(*  - An array is a sequence.                                              *)
(*  - The integers of the data are integers.  A number produced by a       *)
(*    division is the fraction [num, den] in lowest terms with den >= 0;   *)
(*    den = 0 holds the non-finite values: 1/0 is Infinity, -1/0 is        *)
(*    -Infinity and 0/0 is NaN.  The fraction is the exact value of the    *)
(*    expression; the double the program holds for it is computed where a  *)
(*    result depends on the difference (see IEEE-754 doubles below).       *)
(*  - A string is a string; text is built with \o and ToString.            *)
(***************************************************************************)
EXTENDS Integers, Sequences, FiniteSets, TLC

VARIABLES
    dataset,            \* sampleData, the nested object the resolver reads
    selectedCategory,   \* useState("food")
    selectedYear,       \* useState("all")
    selectedCompany,    \* useState("MC")
    filteredData,       \* the value of the filteredData memo
    props,              \* the props the child components were rendered with
    metrics,            \* what calculateMetrics returned at the last render
    cards,              \* the value strings of the four metric cards
    table,              \* the body rows of FinancialTable, <<>> before it renders
    charts,             \* the two cards of FinancialChart, <<>> before it renders
    deliveries,         \* the files handed to the browser, oldest first
    lastEvent           \* the event handled last

vars == <<dataset, selectedCategory, selectedYear, selectedCompany,
          filteredData, props, metrics, cards, table, charts, deliveries,
          lastEvent>>

---------------------------------------------------------------------------
(* Bounds of the model *)

\* longest array of quarters stored under one year of a drawn dataset
MaxQuarters == 2
\* longest record sequence drawn as the data prop of a component
MaxLen == 2
\* most files delivered in one run
MaxDeliveries == 2

---------------------------------------------------------------------------
(* Numbers *)

Abs(n) == IF n < 0 THEN -n ELSE n

RECURSIVE Gcd(_, _)
Gcd(a, b) == IF b = 0 THEN a ELSE Gcd(b, a % b)

\* n / d for integers n and d, as JavaScript's / gives it
Div(n, d) ==
    IF d = 0
    THEN [num |-> IF n > 0 THEN 1 ELSE IF n < 0 THEN -1 ELSE 0, den |-> 0]
    ELSE LET g == Gcd(Abs(n), Abs(d))
             s == IF d < 0 THEN -1 ELSE 1
         IN  [num |-> s * (n \div g), den |-> s * (d \div g)]

\* x * k for a fraction x and an integer k > 0
Times(x, k) ==
    IF x.den = 0 THEN x ELSE Div(x.num * k, x.den)

\* Math.abs
MathAbs(x) == [num |-> Abs(x.num), den |-> x.den]

\* x > 0 (false for NaN, true for Infinity)
GreaterThanZero(x) == x.num > 0

IsFinite(x) == x.den # 0

NaN == [num |-> 0, den |-> 0]

\* Number.isNaN(year) for the year of a record, which is Number.parseInt of
\* a key: an integer or NaN
YearIsNaN(year) == ToString(year) = ToString(NaN)

\* String(year): what a template literal, Array.prototype.join and a text
\* node write for the year of a record
YearToString(year) == IF YearIsNaN(year) THEN "NaN" ELSE ToString(year)

\* the year of a record in JSON.stringify, which writes null for NaN
JsonNumber(year) == IF YearIsNaN(year) THEN "null" ELSE ToString(year)

Zero == [num |-> 0, den |-> 1]

---------------------------------------------------------------------------
(* IEEE-754 doubles.  Every fraction of the program is a percentage        *)
(* (n / d) * 100 of two integers: the division is rounded to a double and  *)
(* so is the product.  The double differs from the exact value by less     *)
(* than one part in 2^51, which is less than the distance from the exact   *)
(* value to any decimal or integer it does not lie on (the integers of the *)
(* model are below 2^31), so it only matters where the exact value lies on *)
(* the point a result is decided at: a tie of toFixed, the other side of a *)
(* comparison.  There the double is computed, digit by digit.              *)

RECURSIVE Pow2(_)
Pow2(k) == IF k = 0 THEN 1 ELSE 2 * Pow2(k - 1)

\* the number of binary digits of n >= 0
RECURSIVE BitLength(_)
BitLength(n) == IF n = 0 THEN 0 ELSE 1 + BitLength(n \div 2)

\* the last width binary digits of n >= 0, most significant first
Bits(n, width) == [i \in 1 .. width |-> (n \div Pow2(width - i)) % 2]

\* the binary digits of n >= 0 from its leading 1 on
Binary(n) == Bits(n, BitLength(n))

\* the number that the binary digits from position i to position j denote
RECURSIVE BitsValue(_, _, _)
BitsValue(sig, i, j) ==
    IF j < i THEN 0 ELSE 2 * BitsValue(sig, i, j - 1) + sig[j]

\* long division: the quotient of rem / d continued after the digits sig
\* until there are 54 of them; rest tells whether a remainder is left
RECURSIVE Quotient(_, _, _)
Quotient(sig, rem, d) ==
    IF Len(sig) >= 54 THEN [sig |-> SubSeq(sig, 1, 54),
                            rest |-> rem # 0 \/ \E i \in 55 .. Len(sig) : sig[i] = 1]
    ELSE LET bit == IF 2 * rem >= d THEN 1 ELSE 0
         IN  Quotient(Append(sig, bit), 2 * rem - bit * d, d)

\* the least z >= 0 with n * 2^z >= d, for n > 0
RECURSIVE LeadingZeros(_, _)
LeadingZeros(n, d) == IF n >= d THEN 0 ELSE 1 + LeadingZeros(2 * n, d)

\* the first 54 binary digits of n / d (n, d > 0) from its leading 1 on:
\* n / d = (sig + t) * 2^exp with 0 <= t < 1, and rest tells whether t > 0
Significand(n, d) ==
    LET z == LeadingZeros(n, d)
        scaled == n * Pow2(z)
        whole == Binary(scaled \div d)
        q == Quotient(whole, scaled % d, d)
    IN  [sig |-> q.sig, rest |-> q.rest, exp |-> Len(whole) - 54 - z]

\* the digits of sig + 1; one digit longer when every digit of sig is 1
Increment(sig) ==
    LET zeros == {i \in DOMAIN sig : sig[i] = 0}
    IN  IF zeros = {} THEN <<1>> \o [i \in DOMAIN sig |-> 0]
        ELSE LET last == CHOOSE i \in zeros : \A j \in zeros : j <= i
             IN  [i \in DOMAIN sig |-> IF i < last THEN sig[i] ELSE IF i = last THEN 1 ELSE 0]

\* (sig + t) * 2^exp rounded to a double, to nearest and to even on a tie,
\* for at least 54 digits sig: the 53 digits of its significand and the
\* exponent of the last one
RoundToDouble(sig, rest, exp) ==
    LET keep == SubSeq(sig, 1, 53)
        guard == sig[54]
        sticky == rest \/ \E i \in 55 .. Len(sig) : sig[i] = 1
        up == guard = 1 /\ (sticky \/ keep[53] = 1)
        rounded == IF up THEN Increment(keep) ELSE keep
        e == exp + Len(sig) - 53
    IN  IF Len(rounded) = 54
        THEN [sig |-> SubSeq(rounded, 1, 53), exp |-> e + 1]
        ELSE [sig |-> rounded, exp |-> e]

\* the digits of sig * k for 53 digits sig and 2 <= k < 2^12, in three
\* parts of at most 18 digits with the carries between them
MulBits(sig, k) ==
    LET low == BitsValue(sig, 36, 53) * k
        middle == BitsValue(sig, 18, 35) * k + low \div Pow2(18)
        high == BitsValue(sig, 1, 17) * k + middle \div Pow2(18)
    IN  Binary(high) \o Bits(middle % Pow2(18), 18) \o Bits(low % Pow2(18), 18)

\* n / d as a double, for integers n > 0 and d > 0
DoubleDivide(n, d) ==
    LET q == Significand(n, d)
    IN  RoundToDouble(q.sig, q.rest, q.exp)

\* x * k as a double, for a double x > 0 and an integer k, 2 <= k < 2^12
DoubleTimes(x, k) ==
    RoundToDouble(MulBits(x.sig, k), FALSE, x.exp)

\* a and b are digit sequences of the same length: -1, 0 or 1 as a is below,
\* equal to or above b
CompareBits(a, b) ==
    LET differ == {i \in DOMAIN a : a[i] # b[i]}
    IN  IF differ = {} THEN 0
        ELSE LET first == CHOOSE i \in differ : \A j \in differ : i <= j
             IN  IF a[first] < b[first] THEN -1 ELSE 1

\* -1, 0 or 1 as the double x is below, equal to or above n / d (n, d > 0)
CompareWithRatio(x, n, d) ==
    LET q == Significand(n, d)
        c == CompareBits(Append(x.sig, 0), q.sig)
    IN  IF x.exp - 1 > q.exp THEN 1
        ELSE IF x.exp - 1 < q.exp THEN -1
        ELSE IF c # 0 THEN c
        ELSE IF q.rest THEN -1 ELSE 0

\* for the percentage x = (n / d) * 100, finite: -1, 0 or 1 as the double
\* the program holds for it is below, equal to or above the exact value
RoundingError(x) ==
    IF x.num = 0 THEN 0
    ELSE LET ratio == Div(Abs(x.num), 100 * x.den)
             double == DoubleTimes(DoubleDivide(ratio.num, ratio.den), 100)
             c == CompareWithRatio(double, Abs(x.num), x.den)
         IN  IF x.num < 0 THEN 0 - c ELSE c

\* x > k for a percentage x and an integer k (false for NaN)
GreaterThan(x, k) ==
    IF x.den = 0 THEN x.num > 0
    ELSE IF x.num = k * x.den THEN RoundingError(x) > 0
    ELSE x.num > k * x.den

\* x > k for a decimal x read by parseFloat and an integer k: the nearest
\* double of a decimal is on the same side of an integer as the decimal
DecimalGreaterThan(x, k) ==
    IF x.den = 0 THEN x.num > 0 ELSE x.num > k * x.den

---------------------------------------------------------------------------
(* Objects *)

Keys(obj) == {obj[i].key : i \in DOMAIN obj}

\* obj has the own property key
Has(obj, key) == key \in Keys(obj)

\* obj[key] for an own property key of obj
Get(obj, key) == obj[CHOOSE i \in DOMAIN obj : obj[i].key = key].val

\* the character of s at position i, 1 <= i <= Len(s)
Char(s, i) == SubSeq(s, i, i)

\* the digits of the radices up to 16, the digit d at position d + 1
LowerDigits ==
    <<"0", "1", "2", "3", "4", "5", "6", "7", "8", "9", "a", "b", "c", "d", "e", "f">>

UpperDigits ==
    <<"0", "1", "2", "3", "4", "5", "6", "7", "8", "9", "A", "B", "C", "D", "E", "F">>

\* the value of each digit character
DigitValues ==
    [c \in {LowerDigits[k] : k \in 1 .. 16} \cup {UpperDigits[k] : k \in 1 .. 16} |->
       CHOOSE d \in 0 .. 15 : LowerDigits[d + 1] = c \/ UpperDigits[d + 1] = c]

\* the value of c as a digit of a radix up to 16, 16 for any other character
DigitValue(c) == IF c \in DOMAIN DigitValues THEN DigitValues[c] ELSE 16

IsDigit(c) == DigitValue(c) < 10

DigitOf(c) == DigitValues[c]

\* every character of s from position i on is a decimal digit
RECURSIVE AllDigits(_, _)
AllDigits(s, i) ==
    i > Len(s) \/ (IsDigit(Char(s, i)) /\ AllDigits(s, i + 1))

\* a < b for two digit strings of the same length, from position i on
RECURSIVE DigitsLess(_, _, _)
DigitsLess(a, b, i) ==
    /\ i <= Len(a)
    /\ \/ DigitOf(Char(a, i)) < DigitOf(Char(b, i))
       \/ (Char(a, i) = Char(b, i) /\ DigitsLess(a, b, i + 1))

\* a < b for two canonical numeric strings, as numbers
IndexLess(a, b) ==
    Len(a) < Len(b) \/ (Len(a) = Len(b) /\ DigitsLess(a, b, 1))

\* A property key is an array index when it is the canonical decimal string
\* of an integer in 0 .. 2^32 - 2: digits only, no leading zero, at most
\* 4294967294.
IsArrayIndex(key) ==
    /\ Len(key) >= 1
    /\ AllDigits(key, 1)
    /\ (Len(key) = 1 \/ Char(key, 1) # "0")
    /\ Len(key) <= 10
    /\ (Len(key) = 10 => ~IndexLess("4294967294", key))

\* StrWhiteSpaceChar, the white space and line terminators of the language:
\* space, tab, line feed, form feed, carriage return, then U+000B (vertical
\* tab), U+00A0 (no-break space), U+1680 (ogham space mark) and U+FEFF
\* (zero width no-break space).  The others (U+2000 to U+200A, U+2028,
\* U+2029, U+202F, U+205F, U+3000) cannot occur in a string of the model.
StrWhiteSpaceChar ==
    {" ", "\t", "\n", "\f", "\r", "", " ", " ", "﻿"}

\* the position after the white space parseInt skips from position i on
RECURSIVE TrimStart(_, _)
TrimStart(s, i) ==
    IF i <= Len(s) /\ Char(s, i) \in StrWhiteSpaceChar
    THEN TrimStart(s, i + 1)
    ELSE i

\* the value of the longest run of radix digits from position i on, after
\* the value acc
RECURSIVE RadixValue(_, _, _, _)
RadixValue(s, i, radix, acc) ==
    IF i <= Len(s) /\ DigitValue(Char(s, i)) < radix
    THEN RadixValue(s, i + 1, radix, radix * acc + DigitValue(Char(s, i)))
    ELSE acc

\* Number.parseInt(string) without a radix: leading white space is skipped,
\* then a sign, then 0x or 0X selects radix 16; the value of the longest run
\* of digits that follows, NaN when there is none.  The integers of the
\* model are those of TLC, so the run denotes at most 2147483647.
ParseInt(string) ==
    LET start == TrimStart(string, 1)
        signed == start <= Len(string) /\ Char(string, start) \in {"+", "-"}
        sign == IF signed /\ Char(string, start) = "-" THEN -1 ELSE 1
        afterSign == IF signed THEN start + 1 ELSE start
        hex == /\ afterSign + 1 <= Len(string)
               /\ SubSeq(string, afterSign, afterSign + 1) \in {"0x", "0X"}
        radix == IF hex THEN 16 ELSE 10
        first == IF hex THEN afterSign + 2 ELSE afterSign
    IN  IF first <= Len(string) /\ DigitValue(Char(string, first)) < radix
        THEN sign * RadixValue(string, first, radix, 0)
        ELSE NaN

\* the properties of obj whose key is (wantIndex) or is not (~wantIndex) an
\* array index, from position i on, in creation order
RECURSIVE SelectIdx(_, _, _)
SelectIdx(obj, i, wantIndex) ==
    IF i > Len(obj) THEN <<>>
    ELSE (IF IsArrayIndex(obj[i].key) = wantIndex THEN <<obj[i]>> ELSE <<>>)
         \o SelectIdx(obj, i + 1, wantIndex)

\* sorts entries with array-index keys by ascending numeric key
RECURSIVE SortByIndex(_)
SortByIndex(es) ==
    IF es = <<>> THEN <<>>
    ELSE LET m == CHOOSE i \in DOMAIN es :
                    \A j \in DOMAIN es : ~IndexLess(es[j].key, es[i].key)
             rest == [k \in 1 .. (Len(es) - 1) |-> IF k < m THEN es[k] ELSE es[k + 1]]
         IN  <<es[m]>> \o SortByIndex(rest)

\* a plausible slip: the properties in creation order, whatever their keys
OwnPropertiesInCreationOrder(obj) == obj

\* OrdinaryOwnPropertyKeys: the array-index keys in ascending numeric order,
\* then the other string keys in creation order
OwnProperties(obj) ==
    SortByIndex(SelectIdx(obj, 1, TRUE)) \o SelectIdx(obj, 1, FALSE)

\* Object.entries(obj), each entry as [key, val]
ObjectEntries(obj) == OwnProperties(obj)

\* Object.keys(obj)
ObjectKeys(obj) ==
    LET properties == OwnProperties(obj)
    IN  [i \in DOMAIN obj |-> properties[i].key]

---------------------------------------------------------------------------
(* Inherited properties.  obj[key] also finds what obj inherits: a plain   *)
(* object inherits the properties of Object.prototype, and the values      *)
(* found there (functions, and through them strings and numbers) have      *)
(* properties of their own.  A value that is not an object or an array of  *)
(* the data is a record with a type.                                       *)

Undefined == [type |-> "undefined"]

JsNull == [type |-> "null"]

\* the completion of a property read whose getter throws a TypeError
Thrown == [type |-> "throw"]

\* a built-in function with its name and length properties
Fn(name, length) == [type |-> "function", name |-> name, length |-> length]

Str(value) == [type |-> "string", value |-> value]

Num(value) == [type |-> "number", value |-> value]

ObjectPrototype == [type |-> "object", intrinsic |-> "Object.prototype"]

StringPrototype == [type |-> "object", intrinsic |-> "String.prototype"]

NumberPrototype == [type |-> "object", intrinsic |-> "Number.prototype"]

\* Function.prototype is itself a function, with the empty name
FunctionPrototype == Fn("", 0)

\* an accessor property; the value is computed from the receiver
Accessor(key) == [key |-> key, val |-> [type |-> "accessor"]]

\* the own properties of Object.prototype
ObjectPrototypeProperties ==
    << [key |-> "constructor", val |-> Fn("Object", 1)],
       [key |-> "__defineGetter__", val |-> Fn("__defineGetter__", 2)],
       [key |-> "__defineSetter__", val |-> Fn("__defineSetter__", 2)],
       [key |-> "hasOwnProperty", val |-> Fn("hasOwnProperty", 1)],
       [key |-> "__lookupGetter__", val |-> Fn("__lookupGetter__", 1)],
       [key |-> "__lookupSetter__", val |-> Fn("__lookupSetter__", 1)],
       [key |-> "isPrototypeOf", val |-> Fn("isPrototypeOf", 1)],
       [key |-> "propertyIsEnumerable", val |-> Fn("propertyIsEnumerable", 1)],
       [key |-> "toString", val |-> Fn("toString", 0)],
       [key |-> "valueOf", val |-> Fn("valueOf", 0)],
       Accessor("__proto__"),
       [key |-> "toLocaleString", val |-> Fn("toLocaleString", 0)] >>

\* the own properties of the Object constructor besides length and name, as
\* of ECMAScript 2023; an engine of a later edition adds groupBy, a function
\* like the others here
ObjectConstructorProperties ==
    << [key |-> "prototype", val |-> ObjectPrototype],
       [key |-> "assign", val |-> Fn("assign", 2)],
       [key |-> "getOwnPropertyDescriptor", val |-> Fn("getOwnPropertyDescriptor", 2)],
       [key |-> "getOwnPropertyDescriptors", val |-> Fn("getOwnPropertyDescriptors", 1)],
       [key |-> "getOwnPropertyNames", val |-> Fn("getOwnPropertyNames", 1)],
       [key |-> "getOwnPropertySymbols", val |-> Fn("getOwnPropertySymbols", 1)],
       [key |-> "hasOwn", val |-> Fn("hasOwn", 2)],
       [key |-> "is", val |-> Fn("is", 2)],
       [key |-> "preventExtensions", val |-> Fn("preventExtensions", 1)],
       [key |-> "seal", val |-> Fn("seal", 1)],
       [key |-> "create", val |-> Fn("create", 2)],
       [key |-> "defineProperties", val |-> Fn("defineProperties", 2)],
       [key |-> "defineProperty", val |-> Fn("defineProperty", 3)],
       [key |-> "freeze", val |-> Fn("freeze", 1)],
       [key |-> "getPrototypeOf", val |-> Fn("getPrototypeOf", 1)],
       [key |-> "setPrototypeOf", val |-> Fn("setPrototypeOf", 2)],
       [key |-> "isExtensible", val |-> Fn("isExtensible", 1)],
       [key |-> "isFrozen", val |-> Fn("isFrozen", 1)],
       [key |-> "isSealed", val |-> Fn("isSealed", 1)],
       [key |-> "keys", val |-> Fn("keys", 1)],
       [key |-> "entries", val |-> Fn("entries", 1)],
       [key |-> "fromEntries", val |-> Fn("fromEntries", 1)],
       [key |-> "values", val |-> Fn("values", 1)] >>

\* the own properties of Function.prototype besides length and name; reading
\* arguments or caller throws
FunctionPrototypeProperties ==
    << [key |-> "arguments", val |-> Thrown],
       [key |-> "caller", val |-> Thrown],
       [key |-> "constructor", val |-> Fn("Function", 1)],
       [key |-> "apply", val |-> Fn("apply", 2)],
       [key |-> "bind", val |-> Fn("bind", 1)],
       [key |-> "call", val |-> Fn("call", 1)],
       [key |-> "toString", val |-> Fn("toString", 0)] >>

\* a built-in function of which only the existence is read
Method == [type |-> "function"]

\* the names of the methods of String.prototype
StringPrototypeMethods ==
    { "anchor", "at", "big", "blink", "bold", "charAt", "charCodeAt",
      "codePointAt", "concat", "endsWith", "fontcolor", "fontsize", "fixed",
      "includes", "indexOf", "isWellFormed", "italics", "lastIndexOf", "link",
      "localeCompare", "match", "matchAll", "normalize", "padEnd", "padStart",
      "repeat", "replace", "replaceAll", "search", "slice", "small", "split",
      "strike", "sub", "substr", "substring", "sup", "startsWith", "toString",
      "toWellFormed", "trim", "trimStart", "trimLeft", "trimEnd", "trimRight",
      "toLocaleLowerCase", "toLocaleUpperCase", "toLowerCase", "toUpperCase",
      "valueOf" }

\* the names of the methods of Number.prototype
NumberPrototypeMethods ==
    { "toExponential", "toFixed", "toPrecision", "toString", "valueOf",
      "toLocaleString" }

\* the own property key of a value, if it has it: <<the property>>, else <<>>
OwnProperty(v, key) ==
    LET find(list) == SelectSeq(list, LAMBDA p : p.key = key)
    IN  IF v.type = "function"
        THEN IF key = "length" THEN <<[key |-> key, val |-> Num(v.length)]>>
             ELSE IF key = "name" THEN <<[key |-> key, val |-> Str(v.name)]>>
             ELSE IF v.name = "Object" THEN find(ObjectConstructorProperties)
             ELSE IF v.name = "Function"
                  THEN find(<<[key |-> "prototype", val |-> FunctionPrototype]>>)
             ELSE IF v.name = "" THEN find(FunctionPrototypeProperties)
             ELSE <<>>
        ELSE IF v.type = "string"
        THEN IF key = "length" THEN <<[key |-> key, val |-> Num(Len(v.value))]>>
             ELSE IF IsArrayIndex(key) /\ IndexLess(key, ToString(Len(v.value)))
                  THEN <<[key |-> key, val |-> Str(Char(v.value, ParseInt(key) + 1))]>>
             ELSE <<>>
        ELSE IF v.type = "object" /\ v.intrinsic = "Object.prototype"
        THEN find(ObjectPrototypeProperties)
        ELSE IF v.type = "object" /\ v.intrinsic = "String.prototype"
        THEN IF key = "length" THEN <<[key |-> key, val |-> Num(0)]>>
             ELSE IF key \in StringPrototypeMethods \cup {"constructor"}
                  THEN <<[key |-> key, val |-> Method]>>
             ELSE <<>>
        ELSE IF v.type = "object" /\ v.intrinsic = "Number.prototype"
        THEN IF key \in NumberPrototypeMethods \cup {"constructor"}
             THEN <<[key |-> key, val |-> Method]>>
             ELSE <<>>
        ELSE <<>>

\* [[GetPrototypeOf]] of a value (of the wrapper object for a primitive)
PrototypeOf(v) ==
    IF v.type = "function"
    THEN (IF v.name = "" THEN ObjectPrototype ELSE FunctionPrototype)
    ELSE IF v.type = "string" THEN StringPrototype
    ELSE IF v.type = "number" THEN NumberPrototype
    ELSE IF v.type = "object" /\ v.intrinsic # "Object.prototype" THEN ObjectPrototype
    ELSE JsNull

\* the value of the property key found on holder, or on holder's prototype
\* chain, for the receiver the read started at
RECURSIVE GetFrom(_, _, _)
GetFrom(holder, key, receiver) ==
    IF holder.type = "null" THEN Undefined
    ELSE LET own == OwnProperty(holder, key)
         IN  IF own # <<>>
             THEN (IF own[1].val.type = "accessor"
                   THEN PrototypeOf(receiver)
                   ELSE own[1].val)
             ELSE GetFrom(PrototypeOf(holder), key, receiver)

\* v[key] for a value v that is not an object of the data
GetValue(v, key) == GetFrom(v, key, v)

\* obj[key] for a plain object obj that has no own property key: what it
\* inherits from Object.prototype
Inherited(key) ==
    IF key = "__proto__" THEN ObjectPrototype
    ELSE GetFrom(ObjectPrototype, key, ObjectPrototype)

\* ToBoolean
Truthy(v) ==
    IF v.type \in {"undefined", "null"} THEN FALSE
    ELSE IF v.type = "string" THEN v.value # ""
    ELSE IF v.type = "number" THEN v.value # 0
    ELSE TRUE

\* Object.entries(v) for a value that is not an object of the data: the
\* characters of a string; a function, a number and a prototype object have
\* no enumerable own property
EntriesOf(v) ==
    IF v.type = "string"
    THEN [i \in 1 .. Len(v.value) |-> [key |-> ToString(i - 1), val |-> Str(Char(v.value, i))]]
    ELSE <<>>

---------------------------------------------------------------------------
(* The filter resolver *)

\* a plausible slip: the stored record is passed on without its year
SpreadWithoutYear(q, year) == q

\* { ...q, year: year }
SpreadWithYear(q, year) ==
    [f \in (DOMAIN q) \cup {"year"} |-> IF f = "year" THEN year ELSE q[f]]

\* quarters.map((q) => ({ ...q, year: Number.parseInt(year) })): every call
\* of Number.parseInt(year) gives the same value, written parsed
AnnotateYear(quarters, year) ==
    LET parsed == ParseInt(year)
    IN  [i \in DOMAIN quarters |-> SpreadWithYear(quarters[i], parsed)]

\* entries.flatMap(([year, quarters]) => quarters.map(...))
RECURSIVE FlatMapYears(_)
FlatMapYears(entries) ==
    IF entries = <<>> THEN <<>>
    ELSE AnnotateYear(entries[1].val, entries[1].key) \o FlatMapYears(Tail(entries))

\* what the resolver returns when it throws
TypeError == <<[error |-> "TypeError"]>>

\* yearData ? yearData.map(...) : [] for a yearData that is not an array of
\* the data: no such value has a map method
MapInherited(yearData) ==
    IF yearData.type = "throw" THEN TypeError
    ELSE IF Truthy(yearData) THEN TypeError
    ELSE <<>>

\* entries.flatMap(([year, quarters]) => quarters.map(...)) for the entries
\* of a value that is not an object of the data: quarters is a character
FlatMapInherited(entries) ==
    IF entries = <<>> THEN <<>> ELSE TypeError

\* the resolver from the company guard on, for a companyData that is not an
\* object of the data
ResolveInherited(companyData, year) ==
    IF companyData.type = "throw" THEN TypeError
    ELSE IF ~Truthy(companyData) THEN <<>>
    ELSE IF year = "all" THEN FlatMapInherited(EntriesOf(companyData))
    ELSE MapInherited(GetValue(companyData, year))

\* a plausible slip: a year that is no key of the company falls back to all
\* the years of the company
ResolveYearFallback(data, category, company, year) ==
    IF Has(data, category)
    THEN LET categoryData == Get(data, category)
         IN  IF Has(categoryData, company)
             THEN LET companyData == Get(categoryData, company)
                  IN  IF year = "all" \/ ~Has(companyData, year)
                      THEN FlatMapYears(ObjectEntries(companyData))
                      ELSE AnnotateYear(Get(companyData, year), year)
             ELSE ResolveInherited(Inherited(company), year)
    ELSE LET categoryData == Inherited(category)
         IN  IF ~Truthy(categoryData) THEN <<>>
             ELSE ResolveInherited(GetValue(categoryData, company), year)

\* a plausible slip: "all" keeps only the first year of the company
ResolveFirstYearOnly(data, category, company, year) ==
    IF Has(data, category)
    THEN LET categoryData == Get(data, category)
         IN  IF Has(categoryData, company)
             THEN LET companyData == Get(categoryData, company)
                  IN  IF year = "all"
                      THEN FlatMapYears(SubSeq(ObjectEntries(companyData), 1, 1))
                      ELSE IF Has(companyData, year)
                           THEN AnnotateYear(Get(companyData, year), year)
                           ELSE MapInherited(Inherited(year))
             ELSE ResolveInherited(Inherited(company), year)
    ELSE LET categoryData == Inherited(category)
         IN  IF ~Truthy(categoryData) THEN <<>>
             ELSE ResolveInherited(GetValue(categoryData, company), year)

\* the filteredData memo of FinancialDashboard, as a function of the dataset
\* and the three selections
Resolve(data, category, company, year) ==
    IF Has(data, category)
    THEN LET categoryData == Get(data, category)
         IN  IF Has(categoryData, company)
             THEN LET companyData == Get(categoryData, company)
                  IN  IF year = "all"
                      THEN FlatMapYears(ObjectEntries(companyData))
                      ELSE IF Has(companyData, year)
                           THEN AnnotateYear(Get(companyData, year), year)
                           ELSE MapInherited(Inherited(year))
             ELSE ResolveInherited(Inherited(company), year)
    ELSE LET categoryData == Inherited(category)
         IN  IF ~Truthy(categoryData) THEN <<>>
             ELSE ResolveInherited(GetValue(categoryData, company), year)

---------------------------------------------------------------------------
(* The dataset *)

Prop(k, v) == [key |-> k, val |-> v]

Rec(q, s, p) == [quarter |-> q, sales_volume |-> s, profit |-> p]

\* const sampleData.  The year keys are written as numeric literals, so they
\* are the property keys "2023" and "2024".
SampleData ==
    << Prop("food", << Prop("MC",
           << Prop("2023", << Rec(1, 1000, 100), Rec(2, 2000, 50),
                              Rec(3, 1800, 120), Rec(4, 2200, 180) >>),
              Prop("2024", << Rec(1, 2100, 150), Rec(2, 2400, 200),
                              Rec(3, 2600, 220), Rec(4, 2800, 250) >>) >>) >>),
       Prop("technology", << Prop("TECH",
           << Prop("2023", << Rec(1, 5000, 800), Rec(2, 5500, 900),
                              Rec(3, 6000, 1000), Rec(4, 6200, 1100) >>),
              Prop("2024", << Rec(1, 6500, 1200), Rec(2, 7000, 1300),
                              Rec(3, 7200, 1400), Rec(4, 7500, 1500) >>) >>) >>) >>

\* const years
Years == << "all", "2023", "2024" >>

---------------------------------------------------------------------------
(* The derived metrics *)

\* data.reduce((sum, item) => sum + item[field], 0)
RECURSIVE ReduceSum(_, _)
ReduceSum(data, field) ==
    IF data = <<>> THEN 0
    ELSE ReduceSum(SubSeq(data, 1, Len(data) - 1), field) + data[Len(data)][field]

\* !data || data.length === 0
NoData(p) == "data" \notin DOMAIN p \/ Len(p.data) = 0

\* a plausible slip: the growth direction compares the two profits directly
DirectionByDifference(firstProfit, lastProfit) == lastProfit > firstProfit

\* growthRate > 0, with growthRate the signed
\* ((lastQuarter.profit - firstQuarter.profit) / firstQuarter.profit) * 100
GrowthDirection(firstProfit, lastProfit) ==
    GreaterThanZero(Times(Div(lastProfit - firstProfit, firstProfit), 100))

\* a plausible slip: the growth compares the earliest and the latest period
\* by year and quarter instead of the first and the last record
GrowthChronological(data) ==
    LET Before(a, b) == \/ a.year < b.year
                        \/ a.year = b.year /\ a.quarter <= b.quarter
        firstQuarter == data[CHOOSE i \in DOMAIN data :
                               \A j \in DOMAIN data : Before(data[i], data[j])]
        lastQuarter == data[CHOOSE i \in DOMAIN data :
                              \A j \in DOMAIN data : Before(data[j], data[i])]
    IN  Times(Div(lastQuarter.profit - firstQuarter.profit, firstQuarter.profit), 100)

\* the signed growthRate of calculateMetrics, for non-empty data
SignedGrowth(data) ==
    LET firstQuarter == data[1]
        lastQuarter == data[Len(data)]
    IN  Times(Div(lastQuarter.profit - firstQuarter.profit, firstQuarter.profit), 100)

\* a plausible slip: the mean of the per-record margins
RECURSIVE SumOfMargins(_)
SumOfMargins(data) ==
    IF data = <<>> THEN Zero
    ELSE LET x == SumOfMargins(Tail(data))
             y == Times(Div(data[1].profit, data[1].sales_volume), 100)
         IN  IF x.den = 0 \/ y.den = 0 THEN NaN
             ELSE Div(x.num * y.den + y.num * x.den, x.den * y.den)

MeanOfMargins(data) ==
    LET x == SumOfMargins(data)
    IN  IF x.den = 0 THEN x ELSE Div(x.num, x.den * Len(data))

\* (totalProfit / totalSales) * 100
ProfitMargin(data) ==
    Times(Div(ReduceSum(data, "profit"), ReduceSum(data, "sales_volume")), 100)

\* a plausible slip: the empty case is not guarded, and 0 / 0 is shown
MetricsUnguarded(p) ==
    [totalSales |-> 0, totalProfit |-> 0, avgProfitMargin |-> NaN,
     growthRate |-> Zero, isGrowthPositive |-> FALSE]

\* the early return of calculateMetrics
MetricsOfNoData(p) ==
    [totalSales |-> 0, totalProfit |-> 0, avgProfitMargin |-> Zero,
     growthRate |-> Zero, isGrowthPositive |-> FALSE]

\* calculateMetrics of MetricsCards, for the props the component was given
CalculateMetrics(p) ==
    IF NoData(p) THEN MetricsOfNoData(p)
    ELSE LET data == p.data
         IN  [totalSales |-> ReduceSum(data, "sales_volume"),
              totalProfit |-> ReduceSum(data, "profit"),
              avgProfitMargin |-> ProfitMargin(data),
              growthRate |-> MathAbs(SignedGrowth(data)),
              isGrowthPositive |-> GrowthDirection(data[1].profit, data[Len(data)].profit)]

---------------------------------------------------------------------------
(* Formatting *)

RECURSIVE Pow10(_)
Pow10(f) == IF f = 0 THEN 1 ELSE 10 * Pow10(f - 1)

\* the last f decimal digits of k, with leading zeros
RECURSIVE Digits(_, _)
Digits(k, f) == IF f = 0 THEN "" ELSE Digits(k \div 10, f - 1) \o ToString(k % 10)

\* the n of toFixed for a finite percentage x: the integer for which
\* n / 10^f is nearest to the absolute value of the double, the larger one
\* when two are as near.  The exact value lies half way between two
\* integers when the division below leaves no remainder; the double then
\* lies below it, on it or above it.
FixedUnits(x, f) ==
    LET twice == 2 * Abs(x.num) * Pow10(f) + x.den
        n == twice \div (2 * x.den)
    IN  IF twice % (2 * x.den) = 0 /\ RoundingError(MathAbs(x)) < 0
        THEN n - 1
        ELSE n

\* Number.prototype.toFixed(f): the nearest multiple of 10^-f, the larger one
\* on a tie, with the sign in front; the name of a non-finite value
ToFixed(x, f) ==
    IF x.den = 0
    THEN (IF x.num > 0 THEN "Infinity" ELSE IF x.num < 0 THEN "-Infinity" ELSE "NaN")
    ELSE LET n == FixedUnits(x, f)
         IN  (IF x.num < 0 THEN "-" ELSE "")
             \o ToString(n \div Pow10(f))
             \o (IF f = 0 THEN "" ELSE "." \o Digits(n % Pow10(f), f))

\* the digits of n >= 0 in groups of three
RECURSIVE Grouped(_)
Grouped(n) ==
    IF n < 1000 THEN ToString(n)
    ELSE Grouped(n \div 1000) \o "," \o Digits(n % 1000, 3)

\* new Intl.NumberFormat("en-US").format(value), for an integer
FormatNumber(value) ==
    (IF value < 0 THEN "-" ELSE "") \o Grouped(Abs(value))

\* new Intl.NumberFormat("en-US", { style: "currency", currency: "USD",
\* minimumFractionDigits: 0 }).format(value), for an integer
FormatCurrency(value) ==
    (IF value < 0 THEN "-" ELSE "") \o "$" \o Grouped(Abs(value))

\* const cards of MetricsCards: title, value and trend of the four cards
Cards(m) ==
    << [title |-> "Total Sales Volume", value |-> FormatNumber(m.totalSales)],
       [title |-> "Total Profit", value |-> FormatCurrency(m.totalProfit)],
       [title |-> "Average Profit Margin",
        value |-> ToFixed(m.avgProfitMargin, 2) \o "%",
        isPositive |-> GreaterThan(m.avgProfitMargin, 10),
        label |-> IF GreaterThan(m.avgProfitMargin, 10) THEN "Healthy" ELSE "Below Target"],
       [title |-> "Growth Rate",
        value |-> ToFixed(m.growthRate, 1) \o "%",
        isPositive |-> m.isGrowthPositive,
        label |-> IF m.isGrowthPositive THEN "Growing" ELSE "Declining"] >>

---------------------------------------------------------------------------
(* The data table *)

\* null
Null == [isNull |-> TRUE]

\* x rounded to f decimals, as a number: Number.parseFloat(x.toFixed(f))
RoundTo(x, f) ==
    IF x.den = 0 THEN x
    ELSE Div((IF x.num < 0 THEN -1 ELSE 1) * FixedUnits(x, f), Pow10(f))

\* a plausible slip: the trend is computed whatever the previous profit is
GetProfitTrendUnguarded(current, previous) ==
    LET change == Times(Div(current - previous, previous), 100)
    IN  [percentage |-> ToFixed(MathAbs(change), 1),
         isPositive |-> GreaterThanZero(change)]

\* getProfitTrend for the profit of a previous row; the first row, whose
\* previous profit is undefined, is the other case of !previous and is
\* decided in TableRow
GetProfitTrend(current, previous) ==
    IF previous = 0 THEN Null
    ELSE LET change == Times(Div(current - previous, previous), 100)
         IN  [percentage |-> ToFixed(MathAbs(change), 1),
              isPositive |-> GreaterThanZero(change)]

\* the cells of the row of data[index]
TableRow(data, index) ==
    LET item == data[index]
        margin == Times(Div(item.profit, item.sales_volume), 100)
    IN  [year |-> item.year,
         quarter |-> "Q" \o ToString(item.quarter),
         sales_volume |-> FormatNumber(item.sales_volume),
         profit |-> FormatCurrency(item.profit),
         profitMargin |-> ToFixed(margin, 2) \o "%",
         badge |-> IF DecimalGreaterThan(RoundTo(margin, 2), 10) THEN "default" ELSE "secondary",
         trend |-> IF index > 1
                   THEN GetProfitTrend(item.profit, data[index - 1].profit)
                   ELSE Null]

\* the row shown when there are no records
NoDataRow ==
    [colSpan |-> 6, text |-> "No data available for the selected filters"]

\* a plausible slip: no placeholder, an empty sequence gives an empty body
TableWithoutPlaceholder(p) ==
    [i \in DOMAIN p.data |-> TableRow(p.data, i)]

\* the rows of the TableBody of FinancialTable; data.length of an absent
\* data is a TypeError
FinancialTable(p) ==
    IF "data" \notin DOMAIN p
    THEN TypeError
    ELSE IF Len(p.data) = 0 THEN <<NoDataRow>>
    ELSE [i \in DOMAIN p.data |-> TableRow(p.data, i)]

---------------------------------------------------------------------------
(* The charts *)

\* const chartData: each record with its period label
ChartData(data) ==
    [i \in DOMAIN data |->
       [quarter |-> data[i].quarter,
        year |-> data[i].year,
        period |-> (IF YearIsNaN(data[i].year) \/ data[i].year = 0
                    THEN "N/A" ELSE ToString(data[i].year))
                   \o " Q"
                   \o (IF data[i].quarter = 0 THEN "N/A" ELSE ToString(data[i].quarter)),
        sales_volume |-> data[i].sales_volume,
        profit |-> data[i].profit]]

\* the two cards of FinancialChart; data defaults to []
FinancialChart(p) ==
    IF NoData(p)
    THEN << [title |-> "Sales Volume Trends", description |-> "No data available",
             content |-> "No data to display"],
            [title |-> "Profit Analysis", description |-> "No data available",
             content |-> "No data to display"] >>
    ELSE << [title |-> "Sales Volume Trends",
             description |-> "Quarterly sales volume performance over time",
             chart |-> "BarChart", dataKey |-> "sales_volume",
             data |-> ChartData(p.data)],
            [title |-> "Profit Analysis",
             description |-> "Quarterly profit trends and growth patterns",
             chart |-> "LineChart", dataKey |-> "profit",
             data |-> ChartData(p.data)] >>

---------------------------------------------------------------------------
(* The exporter *)

\* parts.join(sep)
RECURSIVE Join(_, _)
Join(parts, sep) ==
    IF parts = <<>> THEN ""
    ELSE IF Len(parts) = 1 THEN parts[1]
    ELSE parts[1] \o sep \o Join(Tail(parts), sep)

\* const headers of exportToCSV
Headers == << "Year", "Quarter", "Sales Volume", "Profit", "Profit Margin" >>

\* a plausible slip: the margin is written with one decimal place
CsvRowOneDecimal(item) ==
    LET profitMargin == ToFixed(Times(Div(item.profit, item.sales_volume), 100), 1)
    IN  Join(<< YearToString(item.year), "Q" \o ToString(item.quarter),
                ToString(item.sales_volume), ToString(item.profit),
                profitMargin \o "%" >>, ",")

\* the row exportToCSV writes for one record
CsvRow(item) ==
    LET profitMargin == ToFixed(Times(Div(item.profit, item.sales_volume), 100), 2)
    IN  Join(<< YearToString(item.year), "Q" \o ToString(item.quarter),
                ToString(item.sales_volume), ToString(item.profit),
                profitMargin \o "%" >>, ",")

\* const csvContent of exportToCSV
CsvContent(data) ==
    Join(<< Join(Headers, ",") >> \o [i \in DOMAIN data |-> CsvRow(data[i])], "\n")

\* a plausible slip: the stored record is written, without the year
JsonObjectWithoutYear(item) ==
    "  {\n"
    \o "    \"quarter\": " \o ToString(item.quarter) \o ",\n"
    \o "    \"sales_volume\": " \o ToString(item.sales_volume) \o ",\n"
    \o "    \"profit\": " \o ToString(item.profit) \o "\n"
    \o "  }"

\* one record of JSON.stringify(data, null, 2), the properties in creation
\* order: those of the stored record, then year
JsonObject(item) ==
    "  {\n"
    \o "    \"quarter\": " \o ToString(item.quarter) \o ",\n"
    \o "    \"sales_volume\": " \o ToString(item.sales_volume) \o ",\n"
    \o "    \"profit\": " \o ToString(item.profit) \o ",\n"
    \o "    \"year\": " \o JsonNumber(item.year) \o "\n"
    \o "  }"

\* JSON.stringify(data, null, 2) for a non-empty array of records
JsonContent(data) ==
    "[\n" \o Join([i \in DOMAIN data |-> JsonObject(data[i])], ",\n") \o "\n]"

\* the Blob and the link that is appended, clicked and removed
Download(content, type, filename) ==
    [filename |-> filename, type |-> type, content |-> content]

---------------------------------------------------------------------------
(* The dashboard: FinancialDashboard over sampleData *)

Range(s) == {s[i] : i \in DOMAIN s}

\* const categories
Categories == ObjectKeys(dataset)

\* const companies: Object.keys(sampleData[selectedCategory] || {})
Companies ==
    IF Has(dataset, selectedCategory)
    THEN ObjectKeys(Get(dataset, selectedCategory))
    ELSE <<>>

\* metrics before the first render of MetricsCards
NotRendered == [status |-> "not rendered"]

\* a plausible slip: selectedCompany is missing from the dependencies of the
\* memo, so a change of company alone keeps the earlier records
RenderStaleMemo(category, company, year) ==
    /\ filteredData' = IF category = selectedCategory /\ year = selectedYear
                       THEN filteredData
                       ELSE Resolve(dataset, category, company, year)
    /\ props' = [data |-> filteredData']
    /\ metrics' = CalculateMetrics(props')
    /\ cards' = Cards(metrics')
    /\ table' = FinancialTable(props')
    /\ charts' = FinancialChart(props')

\* one render of FinancialDashboard and its children with the given selection
Render(category, company, year) ==
    /\ filteredData' = Resolve(dataset, category, company, year)
    /\ props' = [data |-> filteredData']
    /\ metrics' = CalculateMetrics(props')
    /\ cards' = Cards(metrics')
    /\ table' = FinancialTable(props')
    /\ charts' = FinancialChart(props')

Init ==
    /\ dataset = SampleData
    /\ selectedCategory = "food"
    /\ selectedYear = "all"
    /\ selectedCompany = "MC"
    /\ filteredData = Resolve(dataset, selectedCategory, selectedCompany, selectedYear)
    /\ props = [data |-> filteredData]
    /\ metrics = CalculateMetrics(props)
    /\ cards = Cards(metrics)
    /\ table = FinancialTable(props)
    /\ charts = FinancialChart(props)
    /\ deliveries = <<>>
    /\ lastEvent = "mount"

\* a plausible slip: choosing a category also selects its first company
SetSelectedCategoryResetsCompany(category) ==
    /\ selectedCategory' = category
    /\ selectedCompany' = ObjectKeys(Get(dataset, category))[1]
    /\ Render(category, selectedCompany', selectedYear)
    /\ lastEvent' = "setSelectedCategory"
    /\ UNCHANGED <<dataset, selectedYear, deliveries>>

\* onValueChange of the category Select
SetSelectedCategory(category) ==
    /\ selectedCategory' = category
    /\ Render(category, selectedCompany, selectedYear)
    /\ lastEvent' = "setSelectedCategory"
    /\ UNCHANGED <<dataset, selectedYear, selectedCompany, deliveries>>

\* onValueChange of the company Select
SetSelectedCompany(company) ==
    /\ selectedCompany' = company
    /\ Render(selectedCategory, company, selectedYear)
    /\ lastEvent' = "setSelectedCompany"
    /\ UNCHANGED <<dataset, selectedCategory, selectedYear, deliveries>>

\* onValueChange of the year Select
SetSelectedYear(year) ==
    /\ selectedYear' = year
    /\ Render(selectedCategory, selectedCompany, year)
    /\ lastEvent' = "setSelectedYear"
    /\ UNCHANGED <<dataset, selectedCategory, selectedCompany, deliveries>>

\* a plausible slip: the click exports whatever it was given, records or not
ExportToCSVUnguarded ==
    /\ Len(deliveries) < MaxDeliveries
    /\ deliveries' = Append(deliveries,
                            Download(CsvContent(props.data), "text/csv;charset=utf-8;",
                                     "financial-data.csv"))
    /\ lastEvent' = "exportToCSV"
    /\ UNCHANGED <<dataset, selectedCategory, selectedYear, selectedCompany,
                   filteredData, props, metrics, cards, table, charts>>

\* onClick of "Export as CSV"
ExportToCSV ==
    /\ Len(deliveries) < MaxDeliveries
    /\ deliveries' =
         IF NoData(props) THEN deliveries
         ELSE Append(deliveries,
                     Download(CsvContent(props.data), "text/csv;charset=utf-8;",
                              "financial-data.csv"))
    /\ lastEvent' = "exportToCSV"
    /\ UNCHANGED <<dataset, selectedCategory, selectedYear, selectedCompany,
                   filteredData, props, metrics, cards, table, charts>>

\* onClick of "Export as JSON"
ExportToJSON ==
    /\ Len(deliveries) < MaxDeliveries
    /\ deliveries' =
         IF NoData(props) THEN deliveries
         ELSE Append(deliveries,
                     Download(JsonContent(props.data), "application/json;charset=utf-8;",
                              "financial-data.json"))
    /\ lastEvent' = "exportToJSON"
    /\ UNCHANGED <<dataset, selectedCategory, selectedYear, selectedCompany,
                   filteredData, props, metrics, cards, table, charts>>

Next ==
    \/ \E category \in Range(Categories) : SetSelectedCategory(category)
    \/ \E company \in Range(Companies) : SetSelectedCompany(company)
    \/ \E year \in Range(Years) : SetSelectedYear(year)
    \/ ExportToCSV
    \/ ExportToJSON

Spec == Init /\ [][Next]_vars

---------------------------------------------------------------------------
(* The filter resolver on drawn datasets and selections *)

StoredRecords == {Rec(1, 1000, 100), Rec(2, 2000, 50)}

QuarterSeqs == UNION {[1 .. n -> StoredRecords] : n \in 0 .. MaxQuarters}

\* the year keys of a drawn company: two successive years, or two years
\* whose numeric order is not the order of their strings
YearKeyInputs == {{"2023", "2024"}, {"2024", "999"}}

\* the year objects: every creation order of every set of year keys
YearObjects ==
    UNION {{[i \in 1 .. n |-> Prop(ks[i], qs[i])] :
              ks \in {k \in [1 .. n -> keys] :
                        \A i, j \in 1 .. n : i # j => k[i] # k[j]},
              qs \in [1 .. n -> QuarterSeqs]} :
           n \in 0 .. 2, keys \in YearKeyInputs}

Datasets ==
    {<<>>, <<Prop("food", <<>>)>>, SampleData}
    \cup {<<Prop("technology", Get(SampleData, "technology")),
            Prop("food", <<Prop("MC", yo)>>)>> : yo \in YearObjects}

\* the selections: keys of the data, unknown keys, and names that every
\* object inherits
CategoryInputs == {"food", "technology", "energy", "constructor"}

CompanyInputs == {"MC", "TECH", "ACME", "name", "constructor"}

YearInputs == {"all", "2023", "2024", "2025", "999", "name", "constructor"}

InitFilter ==
    /\ dataset \in Datasets
    /\ selectedCategory \in CategoryInputs
    /\ selectedCompany \in CompanyInputs
    /\ selectedYear \in YearInputs
    /\ filteredData = <<>>
    /\ props = [data |-> <<>>]
    /\ metrics = NotRendered
    /\ cards = <<>>
    /\ table = <<>>
    /\ charts = <<>>
    /\ deliveries = <<>>
    /\ lastEvent = "input"

\* the filteredData memo is evaluated
ResolveStep ==
    /\ lastEvent = "input"
    /\ filteredData' = Resolve(dataset, selectedCategory, selectedCompany, selectedYear)
    /\ lastEvent' = "resolve"
    /\ UNCHANGED <<dataset, selectedCategory, selectedYear, selectedCompany,
                   props, metrics, cards, table, charts, deliveries>>

NextFilter == ResolveStep

SpecFilter == InitFilter /\ [][NextFilter]_vars

---------------------------------------------------------------------------
(* MetricsCards and ExportButtons on drawn props *)

SalesInputs == {0, 1000, 1800}

ProfitInputs == {-100, 0, 120}

RecordInputs ==
    {[quarter |-> 1, sales_volume |-> s, profit |-> p, year |-> y] :
       s \in SalesInputs, p \in ProfitInputs, y \in {2023, 2024}}

\* the records of the examples of the specification
ExampleRecords ==
    << [quarter |-> 1, sales_volume |-> 1000, profit |-> 100, year |-> 2023],
       [quarter |-> 2, sales_volume |-> 2000, profit |-> 50, year |-> 2023],
       [quarter |-> 3, sales_volume |-> 1800, profit |-> 120, year |-> 2023],
       [quarter |-> 4, sales_volume |-> 2200, profit |-> 180, year |-> 2023] >>

\* records whose percentages lie half way between two decimals: the margin
\* 23 / 160 is 14.375 %, the change from 80 to 103 is 28.75 %
HalfwayRecords ==
    << [quarter |-> 1, sales_volume |-> 160, profit |-> 23, year |-> 2023],
       [quarter |-> 2, sales_volume |-> 1000, profit |-> 80, year |-> 2023],
       [quarter |-> 3, sales_volume |-> 1000, profit |-> 103, year |-> 2023] >>

DataInputs ==
    UNION {[1 .. n -> RecordInputs] : n \in 0 .. MaxLen}
    \cup {ExampleRecords, SubSeq(ExampleRecords, 1, 1)}
    \cup {HalfwayRecords, SubSeq(HalfwayRecords, 1, 1), SubSeq(HalfwayRecords, 2, 3)}
    \cup {Resolve(SampleData, "food", "MC", Years[i]) : i \in DOMAIN Years}

\* props without data: the component is used without the attribute
PropsWithoutData == [className |-> ""]

InitProps ==
    /\ props \in {[data |-> d] : d \in DataInputs} \cup {PropsWithoutData}
    /\ dataset = SampleData
    /\ selectedCategory = "food"
    /\ selectedYear = "all"
    /\ selectedCompany = "MC"
    /\ filteredData = <<>>
    /\ metrics = NotRendered
    /\ cards = <<>>
    /\ table = <<>>
    /\ charts = <<>>
    /\ deliveries = <<>>
    /\ lastEvent = "input"

\* MetricsCards renders with the props it was given
RenderMetricsCards ==
    /\ metrics = NotRendered
    /\ metrics' = CalculateMetrics(props)
    /\ cards' = Cards(metrics')
    /\ lastEvent' = "render"
    /\ UNCHANGED <<dataset, selectedCategory, selectedYear, selectedCompany,
                   filteredData, props, table, charts, deliveries>>

NextProps ==
    \/ RenderMetricsCards
    \/ ExportToCSV
    \/ ExportToJSON

SpecProps == InitProps /\ [][NextProps]_vars

---------------------------------------------------------------------------
(* FinancialTable and FinancialChart on drawn props *)

\* FinancialTable renders with the props it was given
RenderFinancialTable ==
    /\ table = <<>>
    /\ table' = FinancialTable(props)
    /\ lastEvent' = "renderTable"
    /\ UNCHANGED <<dataset, selectedCategory, selectedYear, selectedCompany,
                   filteredData, props, metrics, cards, charts, deliveries>>

\* FinancialChart renders with the props it was given
RenderFinancialChart ==
    /\ charts = <<>>
    /\ charts' = FinancialChart(props)
    /\ lastEvent' = "renderChart"
    /\ UNCHANGED <<dataset, selectedCategory, selectedYear, selectedCompany,
                   filteredData, props, metrics, cards, table, deliveries>>

NextViews ==
    \/ RenderFinancialTable
    \/ RenderFinancialChart

SpecViews == InitProps /\ [][NextViews]_vars

---------------------------------------------------------------------------
(* Properties of the filter resolver (SpecFilter) *)

Resolved == lastEvent = "resolve"

\* the positions of the selected category and company in the dataset
CategoryAt == {i \in DOMAIN dataset : dataset[i].key = selectedCategory}

CompanyAt ==
    UNION {{<<i, j>> : j \in {j \in DOMAIN dataset[i].val :
                                dataset[i].val[j].key = selectedCompany}} :
           i \in CategoryAt}

\* the year object of the selected company, when the company is present
SelectedCompanyYears ==
    LET at == CHOOSE at \in CompanyAt : TRUE
    IN  dataset[at[1]].val[at[2]].val

\* a returned record is the stored record q with the year of the key added
IsAnnotated(r, q, key) ==
    /\ DOMAIN r = {"quarter", "sales_volume", "profit", "year"}
    /\ r.quarter = q.quarter
    /\ r.sales_volume = q.sales_volume
    /\ r.profit = q.profit
    /\ ToString(r.year) = key

\* C1: for a selection whose category is no key of the dataset, or whose
\* company is no key under that category, the resolver returns the empty
\* sequence and raises no error, whatever the year is.
C1_UnknownCategoryOrCompanyIsEmpty ==
    (Resolved /\ CompanyAt = {}) => filteredData = <<>>

\* the selection is a year: the decimal text of an integer, and neither
\* "all" nor another string
IsYear(year) ==
    /\ ~YearIsNaN(ParseInt(year))
    /\ ToString(ParseInt(year)) = year

\* C2: for a specific year (an integer) and a company that is present, the
\* resolver returns the records stored under the selected category, company
\* and year, in stored order and as many, each with its quarter, sales_volume
\* and profit and with the selected year as an integer; it returns the empty
\* sequence when the year key is absent.
C2_SpecificYear ==
    (Resolved /\ CompanyAt # {} /\ IsYear(selectedYear)) =>
        LET years == SelectedCompanyYears
            at == {k \in DOMAIN years : years[k].key = selectedYear}
        IN  IF at = {} THEN filteredData = <<>>
            ELSE LET stored == years[CHOOSE k \in at : TRUE].val
                 IN  /\ Len(filteredData) = Len(stored)
                     /\ \A i \in DOMAIN stored :
                          IsAnnotated(filteredData[i], stored[i], selectedYear)

\* a year with two stored records is selected and both are returned
C2_Witness ==
    /\ Resolved
    /\ CompanyAt # {}
    /\ IsYear(selectedYear)
    /\ selectedYear = "2024"
    /\ Len(filteredData) = 2
    /\ filteredData[1].year = 2024
    /\ filteredData[1].quarter # filteredData[2].quarter

\* the sum of the lengths of the arrays of a year object
RECURSIVE TotalLength(_)
TotalLength(years) ==
    IF years = <<>> THEN 0 ELSE Len(Head(years).val) + TotalLength(Tail(years))

\* the records of the result that carry the year of the key, in order
WithYear(result, key) ==
    SelectSeq(result, LAMBDA r : "year" \in DOMAIN r /\ ToString(r.year) = key)

\* C3: for year "all" and a company that is present, the result is as long as
\* all the year arrays of the company together, and the records that carry a
\* year are exactly the records stored under that year key, in stored order.
C3_AllYears ==
    (Resolved /\ CompanyAt # {} /\ selectedYear = "all") =>
        LET years == SelectedCompanyYears
        IN  /\ Len(filteredData) = TotalLength(years)
            /\ \A i \in DOMAIN filteredData :
                 /\ "year" \in DOMAIN filteredData[i]
                 /\ \E k \in DOMAIN years : ToString(filteredData[i].year) = years[k].key
            /\ \A k \in DOMAIN years :
                 LET got == WithYear(filteredData, years[k].key)
                 IN  /\ Len(got) = Len(years[k].val)
                     /\ \A i \in DOMAIN got :
                          IsAnnotated(got[i], years[k].val[i], years[k].key)

\* two years with records, three records in all
C3_Witness ==
    /\ Resolved
    /\ CompanyAt # {}
    /\ selectedYear = "all"
    /\ Len(SelectedCompanyYears) = 2
    /\ Len(filteredData) = 3
    /\ \E i, j \in DOMAIN filteredData : filteredData[i].year # filteredData[j].year

\* C4 as stated: for year "all" the year arrays are concatenated in the
\* creation order of the year keys, so the records of a year key created
\* earlier precede those of a year key created later.
C4_CreationOrder ==
    (Resolved /\ CompanyAt # {} /\ selectedYear = "all") =>
        LET years == SelectedCompanyYears
        IN  \A a, b \in DOMAIN years :
              a < b =>
                \A i, j \in DOMAIN filteredData :
                  (/\ ToString(filteredData[i].year) = years[a].key
                   /\ ToString(filteredData[j].year) = years[b].key) => i < j

\* C4 as amended: for year "all" the year arrays are concatenated in ascending
\* numeric order of the year keys, whatever the order the keys were created
\* in.
C4_AscendingYearOrder ==
    (Resolved /\ CompanyAt # {} /\ selectedYear = "all") =>
        \A i, j \in DOMAIN filteredData :
          i < j => filteredData[i].year <= filteredData[j].year

\* the key 2024 was created before the key 999, both hold records, and the
\* records of 999 come first
C4_Witness ==
    /\ Resolved
    /\ CompanyAt # {}
    /\ selectedYear = "all"
    /\ LET years == SelectedCompanyYears
       IN  /\ Len(years) = 2
           /\ years[1].key = "2024" /\ years[1].val # <<>>
           /\ years[2].key = "999" /\ years[2].val # <<>>
    /\ filteredData[1].year = 999
    /\ filteredData[Len(filteredData)].year = 2024

---------------------------------------------------------------------------
(* Properties of MetricsCards (SpecProps) *)

Rendered == "totalSales" \in DOMAIN metrics

HasRecords == "data" \in DOMAIN props /\ props.data # <<>>

\* the sum of a field over a record sequence, front to back
RECURSIVE SumFrom(_, _, _)
SumFrom(data, field, i) ==
    IF i > Len(data) THEN 0 ELSE data[i][field] + SumFrom(data, field, i + 1)

\* the fraction x is the finite number n / d
IsRatio(x, n, d) == x.den > 0 /\ x.num * d = n * x.den

\* C5: calculateMetrics on an empty or absent record sequence returns
\* totalSales 0, totalProfit 0, avgProfitMargin 0, growthRate 0 and
\* isGrowthPositive false.
C5_NoDataGivesZeroMetrics ==
    (Rendered /\ ~HasRecords) =>
        /\ metrics.totalSales = 0
        /\ metrics.totalProfit = 0
        /\ IsRatio(metrics.avgProfitMargin, 0, 1)
        /\ IsRatio(metrics.growthRate, 0, 1)
        /\ metrics.isGrowthPositive = FALSE

\* MetricsCards has rendered with data = []
C5_Witness ==
    /\ Rendered
    /\ "data" \in DOMAIN props
    /\ props.data = <<>>
    /\ cards[3].value = "0.00%"

\* C6: for a non-empty record sequence with non-zero total sales, totalSales
\* and totalProfit are the sums of sales_volume and profit over all records
\* and avgProfitMargin is totalProfit / totalSales * 100; the four records of
\* the example give 7000, 450 and 6.43%.
C6_TotalsAndMargin ==
    (Rendered /\ HasRecords /\ SumFrom(props.data, "sales_volume", 1) # 0) =>
        /\ metrics.totalSales = SumFrom(props.data, "sales_volume", 1)
        /\ metrics.totalProfit = SumFrom(props.data, "profit", 1)
        /\ IsRatio(metrics.avgProfitMargin,
                   100 * SumFrom(props.data, "profit", 1),
                   SumFrom(props.data, "sales_volume", 1))
        /\ props.data = ExampleRecords =>
             /\ metrics.totalSales = 7000
             /\ metrics.totalProfit = 450
             /\ cards[3].value = "6.43%"

\* the example has rendered
C6_Witness ==
    /\ Rendered
    /\ HasRecords
    /\ props.data = ExampleRecords
    /\ metrics.totalSales = 7000
    /\ cards[1].value = "7,000"
    /\ cards[2].value = "$450"

\* C7: for a non-empty record sequence whose first record has non-zero
\* profit, growthRate is |(last.profit - first.profit) / first.profit * 100|
\* with first and last taken by position; one record gives 0.
C7_GrowthRateIsPositional ==
    (Rendered /\ HasRecords /\ props.data[1].profit # 0) =>
        LET first == props.data[1].profit
            last == props.data[Len(props.data)].profit
        IN  /\ IsRatio(metrics.growthRate, 100 * Abs(last - first), Abs(first))
            /\ Len(props.data) = 1 => IsRatio(metrics.growthRate, 0, 1)

\* the first record is of a later year than the last one, and the growth is
\* that from the first to the last
C7_Witness ==
    /\ Rendered
    /\ HasRecords
    /\ Len(props.data) = 2
    /\ props.data[1].year > props.data[2].year
    /\ props.data[1].profit = -100
    /\ props.data[2].profit = 120
    /\ cards[4].value = "220.0%"

\* C8: the growth direction is positive exactly if the signed growth
\* (last.profit - first.profit) / first.profit * 100 is greater than zero
\* (a quotient of two numbers of the same sign, or a positive number over
\* zero); equal profits give negative, and so does a negative first profit
\* with a larger last profit.
C8_GrowthDirection ==
    (Rendered /\ HasRecords) =>
        LET first == props.data[1].profit
            last == props.data[Len(props.data)].profit
        IN  /\ metrics.isGrowthPositive <=>
                 \/ first > 0 /\ last > first
                 \/ first < 0 /\ last < first
                 \/ first = 0 /\ last > 0
            /\ first = last => ~metrics.isGrowthPositive
            /\ (first < 0 /\ last > first) => ~metrics.isGrowthPositive

\* a loss that turns into a profit is shown as declining
C8_Witness ==
    /\ Rendered
    /\ HasRecords
    /\ props.data[1].profit < 0
    /\ props.data[Len(props.data)].profit > 0
    /\ ~metrics.isGrowthPositive
    /\ cards[4].label = "Declining"

\* C9: for every record sequence the avgProfitMargin and the growthRate are
\* finite numbers, and no metric card shows the result of a division by
\* zero.
C9_MetricsAreFinite ==
    Rendered =>
        /\ IsFinite(metrics.avgProfitMargin)
        /\ IsFinite(metrics.growthRate)
        /\ cards[3].value \notin {"Infinity%", "-Infinity%", "NaN%"}
        /\ cards[4].value \notin {"Infinity%", "-Infinity%", "NaN%"}

---------------------------------------------------------------------------
(* Properties of ExportButtons (SpecProps) *)

\* the text of n hundredths, n >= 0
Hundredths(n) ==
    ToString(n \div 100) \o "."
    \o (IF n % 100 < 10 THEN "0" ELSE "") \o ToString(n % 100)

\* profit / sales_volume * 100 rounded to two decimals: a multiple of 1/100
\* nearest to the quotient (either one when two are equally near), and the
\* name of the quotient when sales_volume is 0
MarginTexts(profit, sales) ==
    IF sales = 0
    THEN {IF profit > 0 THEN "Infinity" ELSE IF profit < 0 THEN "-Infinity" ELSE "NaN"}
    ELSE LET x == 10000 * Abs(profit)
         IN  {(IF profit < 0 THEN "-" ELSE "") \o Hundredths(n) :
                n \in {n \in {x \div sales, x \div sales + 1} :
                         /\ 2 * (n * sales - x) <= sales
                         /\ 2 * (x - n * sales) <= sales}}

\* the lines that state one record
ExpectedLine(r) ==
    {YearToString(r.year) \o ",Q" \o ToString(r.quarter) \o "," \o ToString(r.sales_volume)
     \o "," \o ToString(r.profit) \o "," \o margin \o "%" :
       margin \in MarginTexts(r.profit, r.sales_volume)}

\* the lines of the records from position i on, each after a line break
RECURSIVE ExpectedLines(_, _)
ExpectedLines(data, i) ==
    IF i > Len(data) THEN {""}
    ELSE {"\n" \o line \o rest : line \in ExpectedLine(data[i]),
                                 rest \in ExpectedLines(data, i + 1)}

\* the header line followed by the lines of the records
ExpectedCsv(data) ==
    {"Year,Quarter,Sales Volume,Profit,Profit Margin" \o lines :
       lines \in ExpectedLines(data, 1)}

\* C10: a click on "Export as CSV" with a non-empty record sequence delivers
\* one more file, named financial-data.csv, whose text is the header line
\* followed by one line per record in input order: year, Q<quarter>,
\* sales_volume, profit and profit / sales_volume * 100 to two decimals with a
\* % suffix (for a record with sales_volume 0 the name of the non-finite
\* quotient); the record {2023, 1, 1000, 100} gives 2023,Q1,1000,100,10.00%.
C10_CsvExport ==
    [][(lastEvent' = "exportToCSV" /\ HasRecords) =>
         /\ Len(deliveries') = Len(deliveries) + 1
         /\ SubSeq(deliveries', 1, Len(deliveries)) = deliveries
         /\ LET file == deliveries'[Len(deliveries')]
            IN  /\ file.filename = "financial-data.csv"
                /\ file.type = "text/csv;charset=utf-8;"
                /\ file.content \in ExpectedCsv(props.data)
                /\ props.data = SubSeq(ExampleRecords, 1, 1) =>
                     file.content =
                       "Year,Quarter,Sales Volume,Profit,Profit Margin\n2023,Q1,1000,100,10.00%"
      ]_vars

\* the record of the example has been exported as CSV, once
C10_Witness ==
    /\ lastEvent = "exportToCSV"
    /\ HasRecords
    /\ props.data = SubSeq(ExampleRecords, 1, 1)
    /\ Len(deliveries) = 1
    /\ deliveries[1].filename = "financial-data.csv"
    /\ deliveries[1].content =
         "Year,Quarter,Sales Volume,Profit,Profit Margin\n2023,Q1,1000,100,10.00%"

---------------------------------------------------------------------------
(* Reading JSON text back: JSON.parse for arrays of objects whose values   *)
(* are integers or null, character by character                            *)

RECURSIVE SkipSpace(_, _)
SkipSpace(s, i) ==
    IF i <= Len(s) /\ Char(s, i) \in {" ", "\n", "\t", "\r"}
    THEN SkipSpace(s, i + 1)
    ELSE i

\* the digits from position i on, after the value acc
RECURSIVE ParseDigits(_, _, _)
ParseDigits(s, i, acc) ==
    IF i <= Len(s) /\ IsDigit(Char(s, i))
    THEN ParseDigits(s, i + 1, 10 * acc + DigitOf(Char(s, i)))
    ELSE [ok |-> TRUE, val |-> acc, pos |-> i]

\* an integer with an optional minus sign
ParseNumber(s, i) ==
    IF i <= Len(s) /\ Char(s, i) = "-"
    THEN IF i + 1 <= Len(s) /\ IsDigit(Char(s, i + 1))
         THEN LET r == ParseDigits(s, i + 1, 0)
              IN  [ok |-> TRUE, val |-> 0 - r.val, pos |-> r.pos]
         ELSE [ok |-> FALSE, val |-> 0, pos |-> i]
    ELSE IF i <= Len(s) /\ IsDigit(Char(s, i))
         THEN ParseDigits(s, i, 0)
         ELSE [ok |-> FALSE, val |-> 0, pos |-> i]

\* the value of a member: null or an integer
ParseValue(s, i) ==
    IF i + 3 <= Len(s) /\ SubSeq(s, i, i + 3) = "null"
    THEN [ok |-> TRUE, val |-> JsNull, pos |-> i + 4]
    ELSE ParseNumber(s, i)

\* the position of the next double quote from i on, Len(s) + 1 if none
RECURSIVE FindQuote(_, _)
FindQuote(s, i) ==
    IF i > Len(s) \/ Char(s, i) = "\"" THEN i ELSE FindQuote(s, i + 1)

\* a string without escapes
ParseString(s, i) ==
    IF i <= Len(s) /\ Char(s, i) = "\"" /\ FindQuote(s, i + 1) <= Len(s)
    THEN LET j == FindQuote(s, i + 1)
         IN  [ok |-> TRUE, val |-> SubSeq(s, i + 1, j - 1), pos |-> j + 1]
    ELSE [ok |-> FALSE, val |-> "", pos |-> i]

\* the members of an object from position i on, after the members in acc; a
\* later member replaces an earlier one of the same name
RECURSIVE ParseMembers(_, _, _)
ParseMembers(s, i, acc) ==
    LET k == ParseString(s, SkipSpace(s, i))
        c == SkipSpace(s, k.pos)
        v == ParseValue(s, SkipSpace(s, c + 1))
        e == SkipSpace(s, v.pos)
        obj == [f \in (DOMAIN acc) \cup {k.val} |-> IF f = k.val THEN v.val ELSE acc[f]]
    IN  IF ~k.ok \/ c > Len(s) \/ Char(s, c) # ":" THEN [ok |-> FALSE, val |-> acc, pos |-> i]
        ELSE IF ~v.ok \/ e > Len(s) THEN [ok |-> FALSE, val |-> acc, pos |-> i]
        ELSE IF Char(s, e) = "," THEN ParseMembers(s, e + 1, obj)
        ELSE IF Char(s, e) = "}" THEN [ok |-> TRUE, val |-> obj, pos |-> e + 1]
        ELSE [ok |-> FALSE, val |-> acc, pos |-> i]

\* the elements of an array from position i on, after the elements in acc
RECURSIVE ParseElements(_, _, _)
ParseElements(s, i, acc) ==
    LET b == SkipSpace(s, i)
    IN  IF b > Len(s) \/ Char(s, b) # "{" THEN [ok |-> FALSE, val |-> acc, pos |-> i]
        ELSE LET o == ParseMembers(s, b + 1, <<>>)
                 e == SkipSpace(s, o.pos)
             IN  IF ~o.ok \/ e > Len(s) THEN [ok |-> FALSE, val |-> acc, pos |-> i]
                 ELSE IF Char(s, e) = "," THEN ParseElements(s, e + 1, Append(acc, o.val))
                 ELSE IF Char(s, e) = "]"
                      THEN [ok |-> SkipSpace(s, e + 1) > Len(s),
                            val |-> Append(acc, o.val), pos |-> e + 1]
                 ELSE [ok |-> FALSE, val |-> acc, pos |-> i]

\* JSON.parse(text) for the text of a non-empty array
JsonParse(text) ==
    LET b == SkipSpace(text, 1)
    IN  IF b <= Len(text) /\ Char(text, b) = "["
        THEN ParseElements(text, b + 1, <<>>)
        ELSE [ok |-> FALSE, val |-> <<>>, pos |-> b]

---------------------------------------------------------------------------
(* exportToJSON alone on drawn props *)

NextJson == ExportToJSON

SpecJson == InitProps /\ [][NextJson]_vars

---------------------------------------------------------------------------
(* Properties of the JSON export (SpecJson) *)

\* C11: for every non-empty record sequence, the text that exportToJSON
\* delivers parses, and parsing it gives a sequence equal to the input:
\* the same length, the same order, every record with its quarter,
\* sales_volume, profit and year.
C11_JsonRoundTrip ==
    (lastEvent = "exportToJSON" /\ HasRecords) =>
        /\ deliveries # <<>>
        /\ LET file == deliveries[Len(deliveries)]
               parsed == JsonParse(file.content)
           IN  /\ file.filename = "financial-data.json"
               /\ file.type = "application/json;charset=utf-8;"
               /\ parsed.ok
               /\ Len(parsed.val) = Len(props.data)
               /\ \A i \in DOMAIN props.data :
                    /\ DOMAIN parsed.val[i] = {"quarter", "sales_volume", "profit", "year"}
                    /\ parsed.val[i].quarter = props.data[i].quarter
                    /\ parsed.val[i].sales_volume = props.data[i].sales_volume
                    /\ parsed.val[i].profit = props.data[i].profit
                    /\ parsed.val[i].year = props.data[i].year

\* two records, one of them with a loss, have been exported as JSON
C11_Witness ==
    /\ lastEvent = "exportToJSON"
    /\ HasRecords
    /\ Len(props.data) = 2
    /\ props.data[1].profit = -100
    /\ props.data[2].year # props.data[1].year
    /\ Len(deliveries) = 1
    /\ JsonParse(deliveries[1].content).val[1].profit = -100

---------------------------------------------------------------------------
(* Properties of the dashboard (Spec) *)

ExportEvents == {"exportToCSV", "exportToJSON"}

\* C12: an export click made while the filtered sequence is empty or absent
\* delivers nothing, and the deliveries grow, by one file, only in an export
\* click made while the filtered sequence is non-empty.
C12_ExportOnlyWithRecords ==
    [][/\ (lastEvent' \in ExportEvents /\ ~HasRecords) => deliveries' = deliveries
       /\ deliveries' # deliveries =>
            /\ HasRecords
            /\ lastEvent' \in ExportEvents
            /\ props' = props
            /\ Len(deliveries') = Len(deliveries) + 1
            /\ SubSeq(deliveries', 1, Len(deliveries)) = deliveries
      ]_vars

\* one file was delivered, then the selection was changed to one without
\* records and the JSON export clicked: still one file
C12_Witness ==
    /\ lastEvent = "exportToJSON"
    /\ props.data = <<>>
    /\ selectedCategory = "technology"
    /\ selectedCompany = "MC"
    /\ Len(deliveries) = 1
    /\ deliveries[1].filename = "financial-data.csv"

\* C13: in every reachable state of the dashboard whose selection resolves to
\* no data, nothing is rendered as an error: the table shows its single "no
\* data" row, both charts show their "no data" placeholder, and the four
\* metric cards show zero values.
C13_NoDataIsRendered ==
    /\ \A i \in DOMAIN table : "error" \notin DOMAIN table[i]
    /\ filteredData = <<>> =>
         /\ props.data = <<>>
         /\ table = << [colSpan |-> 6,
                        text |-> "No data available for the selected filters"] >>
         /\ Len(charts) = 2
         /\ \A i \in DOMAIN charts :
              /\ DOMAIN charts[i] = {"title", "description", "content"}
              /\ charts[i].description = "No data available"
              /\ charts[i].content = "No data to display"
         /\ metrics.totalSales = 0
         /\ metrics.totalProfit = 0
         /\ cards[1].value = "0"
         /\ cards[2].value = "$0"
         /\ cards[3].value = "0.00%"
         /\ cards[4].value = "0.0%"

\* the category was changed to technology while the company is still MC
C13_Witness ==
    /\ lastEvent = "setSelectedCategory"
    /\ selectedCategory = "technology"
    /\ selectedCompany = "MC"
    /\ filteredData = <<>>
    /\ Len(table) = 1
    /\ "colSpan" \in DOMAIN table[1]
    /\ cards[1].value = "0"

\* what every consumer shows is made from the records of the current
\* selection
ConsumersShowCurrentSelection ==
    /\ filteredData = Resolve(dataset, selectedCategory, selectedCompany, selectedYear)
    /\ props = [data |-> filteredData]
    /\ metrics.totalSales = SumFrom(filteredData, "sales_volume", 1)
    /\ metrics.totalProfit = SumFrom(filteredData, "profit", 1)
    /\ cards[1].value = FormatNumber(SumFrom(filteredData, "sales_volume", 1))
    /\ filteredData # <<>> =>
         /\ Len(table) = Len(filteredData)
         /\ \A i \in DOMAIN filteredData :
              /\ table[i].year = filteredData[i].year
              /\ table[i].quarter = "Q" \o ToString(filteredData[i].quarter)
              /\ table[i].profit = FormatCurrency(filteredData[i].profit)
         /\ \A k \in DOMAIN charts :
              /\ Len(charts[k].data) = Len(filteredData)
              /\ \A i \in DOMAIN filteredData :
                   /\ charts[k].data[i].year = filteredData[i].year
                   /\ charts[k].data[i].quarter = filteredData[i].quarter
                   /\ charts[k].data[i].sales_volume = filteredData[i].sales_volume
                   /\ charts[k].data[i].profit = filteredData[i].profit

\* C14: after any sequence of selections the metric cards, the charts, the
\* table and the exporter are given one sequence, the resolver's result for
\* the current selection; the metrics are computed from it, and a file that
\* is delivered holds the records of the selection current at the click.
C14_ConsumersShareCurrentRecords ==
    /\ []ConsumersShowCurrentSelection
    /\ [][deliveries' # deliveries =>
            LET file == deliveries'[Len(deliveries')]
                now == Resolve(dataset, selectedCategory', selectedCompany', selectedYear')
                parsed == JsonParse(file.content)
            IN  \/ /\ file.filename = "financial-data.csv"
                   /\ file.content \in ExpectedCsv(now)
                \/ /\ file.filename = "financial-data.json"
                   /\ parsed.ok
                   /\ parsed.val = now
         ]_vars

\* category, company and year have all been changed, a file was exported
\* before the last change, and the views show the records of technology,
\* TECH, 2024
C14_Witness ==
    /\ selectedCategory = "technology"
    /\ selectedCompany = "TECH"
    /\ selectedYear = "2024"
    /\ lastEvent = "setSelectedCompany"
    /\ Len(deliveries) = 1
    /\ Len(filteredData) = 4
    /\ filteredData[1].profit = 1200
    /\ table[1].profit = "$1,200"
    /\ cards[2].value = "$5,400"

\* C15: each selection action changes only its own field, and an export
\* changes none; so the company can be one that the category does not have:
\* with category technology and company MC the filtered sequence is empty.
C15_SelectionsAreIndependent ==
    /\ [][/\ lastEvent' = "setSelectedCategory" =>
               selectedCompany' = selectedCompany /\ selectedYear' = selectedYear
          /\ lastEvent' = "setSelectedCompany" =>
               selectedCategory' = selectedCategory /\ selectedYear' = selectedYear
          /\ lastEvent' = "setSelectedYear" =>
               selectedCategory' = selectedCategory /\ selectedCompany' = selectedCompany
          /\ lastEvent' \in ExportEvents =>
               /\ selectedCategory' = selectedCategory
               /\ selectedCompany' = selectedCompany
               /\ selectedYear' = selectedYear
          /\ selectedCategory' # selectedCategory => lastEvent' = "setSelectedCategory"
          /\ selectedCompany' # selectedCompany => lastEvent' = "setSelectedCompany"
          /\ selectedYear' # selectedYear => lastEvent' = "setSelectedYear"
         ]_vars
    /\ []((selectedCategory = "technology" /\ selectedCompany = "MC") =>
            filteredData = <<>>)

\* technology was chosen from the initial state: the company is still MC,
\* the year still "all", and there are no records
C15_Witness ==
    /\ lastEvent = "setSelectedCategory"
    /\ selectedCategory = "technology"
    /\ selectedCompany = "MC"
    /\ selectedYear = "all"
    /\ selectedCompany \notin Range(Companies)
    /\ filteredData = <<>>
    /\ deliveries = <<>>

---------------------------------------------------------------------------
(* Properties of the data table (SpecViews) *)

TableRendered == table # <<>>

HasTrend(row) == "percentage" \in DOMAIN row.trend

\* |delta / previous * 100| rounded to one decimal: a multiple of 1/10
\* nearest to it, either one when two are equally near
TenthsTexts(delta, previous) ==
    LET x == 1000 * Abs(delta)
        d == Abs(previous)
    IN  {ToString(n \div 10) \o "." \o ToString(n % 10) :
           n \in {n \in {x \div d, x \div d + 1} :
                    /\ 2 * (n * d - x) <= d
                    /\ 2 * (x - n * d) <= d}}

\* C16: the row at position i > 1 of the table compares its profit with that
\* of the row before it in display order, also across a year boundary: it
\* shows |(current - previous) / previous * 100| and is marked positive
\* exactly if that change is greater than zero.  The first row has no trend,
\* and neither has a row whose previous row has profit 0, so no trend is the
\* result of a division by zero.
C16_TableTrend ==
    (TableRendered /\ HasRecords) =>
        /\ Len(table) = Len(props.data)
        /\ ~HasTrend(table[1])
        /\ \A i \in 2 .. Len(table) :
             LET current == props.data[i].profit
                 previous == props.data[i - 1].profit
             IN  IF previous = 0 THEN ~HasTrend(table[i])
                 ELSE /\ HasTrend(table[i])
                      /\ table[i].trend.percentage \in TenthsTexts(current - previous, previous)
                      /\ table[i].trend.isPositive <=> (current - previous) * previous > 0
        /\ \A i \in DOMAIN table :
             HasTrend(table[i]) =>
               table[i].trend.percentage \notin {"Infinity", "-Infinity", "NaN"}

\* the eight records of food, MC, all years: the first quarter of 2024 is
\* compared with the last quarter of 2023
C16_Witness ==
    /\ TableRendered
    /\ HasRecords
    /\ Len(props.data) = 8
    /\ props.data[4].year = 2023
    /\ props.data[5].year = 2024
    /\ ~HasTrend(table[1])
    /\ table[5].trend.percentage = "16.7"
    /\ ~table[5].trend.isPositive
    /\ table[2].trend.percentage = "50.0"

=============================================================================
